---- MODULE Spec2Model ----
(***************************************************************************)
(* State-machine model of run_bench() in                                   *)
(* src/rma/multiple_put_with_lock_flush_one_window_mbw_mr.c : an           *)
(* MPI+OpenMP MPI_Put message-rate benchmark between two ranks.  Rank 0    *)
(* (the putter) opens one lock_all epoch and runs num_threads OpenMP       *)
(* threads that put into rank 1's window; rank 1 (the target) only takes   *)
(* part in the collectives.                                                *)
(***************************************************************************)
EXTENDS Integers, Sequences, FiniteSets, TLC

VARIABLES
    num_threads,    \* global num_threads (same command line on both ranks)
    message_size,   \* global message_size
    arg_messages,   \* num_messages as left by main() before run_bench()
    provided,       \* thread level that MPI_Init_thread() provides
    comm_size,      \* size of MPI_COMM_WORLD
    alloc_fail,     \* the allocations that the C library fails ("t_elapsed", ...)
    num_messages,   \* [rank -> global num_messages of that process]
    pc,             \* [rank -> position of the process's initial thread]
    t_elapsed,      \* [rank -> [slot -> [writes, value, writers]]], or no slots
    contig_buf,     \* [rank -> "uninit" | "NULL" | "alloc" | "freed"]
    window,         \* [rank -> "uninit" | "live" | "MPI_WIN_NULL"]
    coll,           \* [rank -> sequence of collective calls made so far]
    epoch,          \* [open, locks, unlocks] : the lock_all epoch of rank 0
    tpc,            \* [rank -> [tid -> position of the OpenMP thread]]
    omp_arrived,    \* [rank -> [tid -> number of omp barriers arrived at]]
    my_window,      \* [rank -> [tid -> private copy of window]]
    target_disp,    \* [rank -> [tid -> MPI_Aint displacement (two limbs)]]
    win_posts,      \* [rank -> [tid -> number of batches per phase]]
    win_post_i,     \* [tid -> batch loop counter of the putter thread]
    win_i,          \* [tid -> put loop counter of the putter thread]
    host_buf,       \* [tid -> "uninit" | "alloc" | "freed"]
    ops,            \* [tid -> history of the putter thread's puts and flushes]
    warned,         \* [rank -> number of accuracy warnings printed]
    thread_i,       \* loop counter of the reporting loop on rank 0
    reads,          \* [tid -> number of reporting iterations that read t_elapsed[tid]]
    msg_rate,       \* the double msg_rate of rank 0
    bandwidth,      \* the double bandwidth of rank 0
    rows            \* [tid -> my_msg_rate and my_bandwidth of the row printed for tid]

vars == <<num_threads, message_size, arg_messages, provided, comm_size, alloc_fail,
          num_messages, pc, t_elapsed,
          contig_buf, window, coll, epoch, tpc, omp_arrived, my_window,
          target_disp, win_posts, win_post_i, win_i, host_buf, ops, warned,
          thread_i, reads, msg_rate, bandwidth, rows>>

sumVars == <<msg_rate, bandwidth, rows>>
procVars == <<pc, t_elapsed, contig_buf, window, coll, epoch, thread_i, reads, sumVars,
              num_messages>>
loopVars == <<win_post_i, win_i, host_buf, ops>>
privVars == <<my_window, target_disp, win_posts, warned>>
argVars  == <<num_threads, message_size, arg_messages, provided, comm_size, alloc_fail>>

(***************************************************************************)
(* Bounds of the model and constants of the program.                       *)
(***************************************************************************)
MaxThreads  == 2
MaxMessages == 130
MaxSlotThreads == 3
MaxCommSize == 3

WINDOW_SIZE      == 64
DEF_MESSAGE_SIZE == 8
DEF_NUM_MESSAGES == 640000
LARGE_MSG_TH     == 16384
DEF_LARGE_NUM_MESSAGES == 64000
INT_MAX          == 2147483647

Putter == 0
Target == 1
Ranks  == {Putter, Target}
Peer(p) == 1 - p
Tids   == 0 .. (num_threads - 1)

(***************************************************************************)
(* C integer types.  int is 32 bits; size_t and MPI_Aint are 64 bits and   *)
(* are kept as two limbs <<hi, lo>> standing for hi * LimbBase + lo with   *)
(* 0 <= lo < LimbBase, so that values beyond INT_MAX can be written down.  *)
(***************************************************************************)
LimbBase == 2^16
HalfBase == 2^15

\* k * m for 0 <= m <= INT_MAX and 0 <= k < HalfBase, without overflow
WideMul(m, k) ==
    LET mh == m \div LimbBase
        ml == m % LimbBase
        p  == k * ml
    IN  <<k * mh + (p \div LimbBase), p % LimbBase>>

WideAdd(w, m) ==
    LET s == w[2] + (m % LimbBase)
    IN  <<w[1] + (m \div LimbBase) + (s \div LimbBase), s % LimbBase>>

WideLeq(a, b) == a[1] < b[1] \/ (a[1] = b[1] /\ a[2] <= b[2])

FitsInt(w) == -HalfBase <= w[1] /\ w[1] < HalfBase

\* the low 32 bits of w read as a signed int and widened again
WrapInt(w) == <<((w[1] + HalfBase) % LimbBase) - HalfBase, w[2]>>

\* int * int : signed overflow is undefined; the build either keeps the low
\* 32 bits (imul, then sign extension) or multiplies in the wider type
IntMul(a, b) ==
    LET exact == WideMul(b, a)
    IN  IF FitsInt(exact) THEN {exact} ELSE {WrapInt(exact), exact}

(***************************************************************************)
(* C double (IEEE 754 binary64, round to nearest, ties to even).  Only     *)
(* values >= 0 occur.  A finite value above 0 is m * 2^e with a mantissa   *)
(* of DBL_MANT_DIG bits, 2^52 <= m < 2^53; naturals below 2^61 such as m   *)
(* are kept as two limbs <<hi, lo>> standing for hi * DblBase + lo.        *)
(* Results below the normal range (subnormals) are not reached by the      *)
(* values of the model and are not rounded specially.                      *)
(***************************************************************************)
DblBase == 2^30
DBL_MANT_DIG == 53
DBL_MAX_EXP == 1024

PInt(n) == <<n \div DblBase, n % DblBase>>
PGeq(a, b) == a[1] > b[1] \/ (a[1] = b[1] /\ a[2] >= b[2])
PAdd(a, b) ==
    LET l == a[2] + b[2]
    IN  <<a[1] + b[1] + (l \div DblBase), l % DblBase>>
PSub(a, b) ==
    IF a[2] >= b[2] THEN <<a[1] - b[1], a[2] - b[2]>>
                    ELSE <<a[1] - b[1] - 1, a[2] + DblBase - b[2]>>
PHalf(a) == <<a[1] \div 2, (a[1] % 2) * (DblBase \div 2) + (a[2] \div 2)>>
POdd(a) == a[2] % 2 = 1

\* n shifted left by k bits (the result is below 2^60)
PShl(n, k) ==
    IF k >= 30 THEN <<n[2] * 2^(k - 30), 0>>
    ELSE <<n[1] * 2^k + (n[2] \div 2^(30 - k)), (n[2] % 2^(30 - k)) * 2^k>>

\* a * j for 0 <= j < 2^15, the low limb of a taken in two halves
PMulSmall(a, j) ==
    LET p0 == (a[2] % 2^15) * j
        p1 == (a[2] \div 2^15) * j + (p0 \div 2^15)
    IN  <<a[1] * j + (p1 \div 2^15), (p1 % 2^15) * 2^15 + (p0 % 2^15)>>

\* a * k for an int k >= 0 (the result is below 2^60)
PMulInt(a, k) ==
    PAdd(PMulSmall(a, k % 2^15),
         PAdd(PShl(PMulSmall(a, (k \div 2^15) % 2^15), 15),
              PShl(PMulSmall(a, k \div 2^30), 30)))

\* n shifted right by k <= 30 bits; sticky tells whether a one was shifted out
PShrLimb(n, k) ==
    [n |-> <<n[1] \div 2^k, (n[1] % 2^k) * 2^(30 - k) + (n[2] \div 2^k)>>,
     sticky |-> n[2] % 2^k # 0]

\* n shifted right by k <= 60 bits
PShr(n, k) ==
    IF k <= 30 THEN PShrLimb(n, k)
    ELSE LET a == PShrLimb(n, 30)
             b == PShrLimb(a.n, k - 30)
         IN  [n |-> b.n, sticky |-> a.sticky \/ b.sticky]

\* the number of bits of n < 2^60
BitLen(n) ==
    IF n[1] > 0 THEN 30 + Cardinality({k \in 0 .. 29 : 2^k <= n[1]})
    ELSE Cardinality({k \in 0 .. 29 : 2^k <= n[2]})

\* the number of zero bits at the low end of n > 0
TrailingZeros(n) ==
    IF n[2] # 0 THEN Cardinality({k \in 1 .. 29 : n[2] % 2^k = 0})
    ELSE 30 + Cardinality({k \in 1 .. 29 : n[1] % 2^k = 0})

MantMin == <<2^(DBL_MANT_DIG - 1 - 30), 0>>
MantMax == <<2^(DBL_MANT_DIG - 30), 0>>

\* a double that has not been assigned
FUninit == [cls |-> "uninit", m |-> <<0, 0>>, e |-> 0]
FZero == [cls |-> "zero", m |-> <<0, 0>>, e |-> 0]
FInf  == [cls |-> "inf", m |-> <<0, 0>>, e |-> 0]
FNaN  == [cls |-> "nan", m |-> <<0, 0>>, e |-> 0]
Fin(m, e) == IF e + DBL_MANT_DIG > DBL_MAX_EXP THEN FInf
             ELSE [cls |-> "fin", m |-> m, e |-> e]

\* the double nearest to (n + f) * 2^e, where n < 2^60, 0 <= f < 1 and sticky
\* tells whether f > 0 (then n >= 2^53); ties go to the even mantissa
FRound(n, e, sticky) ==
    LET len == BitLen(n)
    IN  IF len = 0 THEN FZero
        ELSE IF len <= DBL_MANT_DIG
             THEN Fin(PShl(n, DBL_MANT_DIG - len), e - (DBL_MANT_DIG - len))
        ELSE LET cut   == len - DBL_MANT_DIG
                 s     == PShr(n, cut - 1)
                 guard == POdd(s.n)
                 kept  == PHalf(s.n)
                 up    == guard /\ (s.sticky \/ sticky \/ POdd(kept))
                 m     == IF up THEN PAdd(kept, <<0, 1>>) ELSE kept
             IN  IF m = MantMax THEN Fin(MantMin, e + cut + 1) ELSE Fin(m, e + cut)

\* (double) n for an int n >= 0 : exact
FromInt(n) == FRound(PInt(n), 0, FALSE)

\* x * y for two converted ints (line 156) : the exact product, rounded
FMul(x, y) ==
    IF x.cls = "nan" \/ y.cls = "nan" THEN FNaN
    ELSE IF x.cls = "inf" \/ y.cls = "inf"
         THEN (IF x.cls = "zero" \/ y.cls = "zero" THEN FNaN ELSE FInf)
    ELSE IF x.cls = "zero" \/ y.cls = "zero" THEN FZero
    ELSE LET zx == TrailingZeros(x.m)
             zy == TrailingZeros(y.m)
             ox == PShr(x.m, zx).n
             oy == PShr(y.m, zy).n
         IN  FRound(PMulInt(ox, oy[1] * DblBase + oy[2]), x.e + zx + y.e + zy, FALSE)

\* long division in base 32 : the quotient q and the remainder r of
\* x * 32^k by d, for x < d
RECURSIVE FDivDigits(_, _, _)
FDivDigits(x, d, k) ==
    IF k = 0 THEN [q |-> <<0, 0>>, r |-> x]
    ELSE LET p   == FDivDigits(x, d, k - 1)
             r32 == PShl(p.r, 5)
             j   == CHOOSE i \in 0 .. 31 :
                        PGeq(r32, PMulInt(d, i)) /\ ~PGeq(r32, PMulInt(d, i + 1))
         IN  [q |-> PAdd(PShl(p.q, 5), <<0, j>>), r |-> PSub(r32, PMulInt(d, j))]

\* x / y : the mantissas' quotient to 55 or 56 bits, then rounded
FDiv(x, y) ==
    IF x.cls = "nan" \/ y.cls = "nan" THEN FNaN
    ELSE IF x.cls = "inf" THEN (IF y.cls = "inf" THEN FNaN ELSE FInf)
    ELSE IF y.cls = "inf" THEN FZero
    ELSE IF y.cls = "zero" THEN (IF x.cls = "zero" THEN FNaN ELSE FInf)
    ELSE IF x.cls = "zero" THEN FZero
    ELSE LET b0 == PGeq(x.m, y.m)
             qr == FDivDigits(IF b0 THEN PSub(x.m, y.m) ELSE x.m, y.m, 11)
             q  == IF b0 THEN PAdd(qr.q, PShl(<<0, 1>>, 55)) ELSE qr.q
         IN  FRound(q, x.e - y.e - 55, qr.r # <<0, 0>>)

\* x + y for finite x >= y > 0 : three more bits and the sticky bit
FAddFin(x, y) ==
    IF x.e - y.e > DBL_MANT_DIG + 3 THEN x
    ELSE LET s == PShr(PShl(y.m, 3), x.e - y.e)
         IN  FRound(PAdd(PShl(x.m, 3), s.n), x.e - 3, s.sticky)

\* x < y (false when either is NaN)
FLess(x, y) ==
    IF x.cls = "nan" \/ y.cls = "nan" THEN FALSE
    ELSE IF x.cls = "inf" THEN FALSE
    ELSE IF y.cls = "inf" THEN TRUE
    ELSE IF y.cls = "zero" THEN FALSE
    ELSE IF x.cls = "zero" THEN TRUE
    ELSE x.e < y.e \/ (x.e = y.e /\ x.m # y.m /\ PGeq(y.m, x.m))

\* x + y
FAdd(x, y) ==
    IF x.cls = "nan" \/ y.cls = "nan" THEN FNaN
    ELSE IF x.cls = "inf" \/ y.cls = "inf" THEN FInf
    ELSE IF x.cls = "zero" THEN y
    ELSE IF y.cls = "zero" THEN x
    ELSE IF FLess(x, y) THEN FAddFin(y, x) ELSE FAddFin(x, y)

\* mutant of Normalize : the division by num_threads is left out
NormalizeNoThreads(n, nt) == WINDOW_SIZE * (n \div WINDOW_SIZE)

\* line 41 : num_messages = WINDOW_SIZE * (num_messages / num_threads / WINDOW_SIZE)
Normalize(n, nt) == WINDOW_SIZE * ((n \div nt) \div WINDOW_SIZE)

\* line 46 : contig_buffer_size = message_size * sizeof(char) * num_threads (size_t)
ContigBufferSize(ms, nt) == WideMul(ms, nt)

\* line 78 : target_disp = tid * message_size (int product stored in an MPI_Aint)
TargetDisp(tid, ms) == IntMul(tid, ms)

\* mutant of MsgRate : the rate is left in messages per second
MsgRatePerSecond(n, t) == FDiv(FromInt(n), t)

\* line 154 : my_msg_rate = ((double) num_messages / t_elapsed[thread_i]) / 1e6
MsgRate(n, t) == FDiv(FDiv(FromInt(n), t), FromInt(1000000))

\* lines 155-157 : my_bandwidth = (((double) message_size * (double) num_messages)
\*                                 / (1024 * 1024)) / t_elapsed[thread_i]
Bandwidth(ms, n, t) == FDiv(FDiv(FMul(FromInt(ms), FromInt(n)), FromInt(1024 * 1024)), t)

\* mutant of Accumulate : the total is assigned, not added to
AccumulateLast(total, x) == x

\* lines 159-160 : msg_rate += my_msg_rate; bandwidth += my_bandwidth
Accumulate(total, x) == FAdd(total, x)

\* line 79 : win_posts = num_messages / WINDOW_SIZE
WinPosts(n) == n \div WINDOW_SIZE

(***************************************************************************)
(* Initial state: the globals as main() leaves them.                       *)
(***************************************************************************)
MessageSizes == {DEF_MESSAGE_SIZE}
MessageCounts == {1, MaxMessages}

\* the inputs of the specification of the slot arithmetic
SlotMessageSizes == {1, DEF_MESSAGE_SIZE, LARGE_MSG_TH + 1, 2^30, INT_MAX}
SlotMessageCounts == {DEF_NUM_MESSAGES, DEF_LARGE_NUM_MESSAGES}

NoOp == [kind |-> "none", phase |-> "none", rank |-> -1, disp |-> <<0, 0>>, size |-> 0,
         epoch_open |-> FALSE, win |-> "uninit", shared_win |-> "uninit",
         target_buf |-> "uninit",
         batch |-> 0]

NoOps == [warm_puts |-> 0, warm_flushes |-> 0, meas_puts |-> 0, meas_flushes |-> 0,
          unflushed |-> 0, started |-> FALSE, ended |-> FALSE, last |-> NoOp]

\* the row of a thread that the reporting loop has not come to
NoRow == [rate |-> FUninit, bw |-> FUninit]

\* a double * that points to no cells : not yet assigned, or NULL
NoCells == <<>>

\* the thread levels of MPI, lowest first
ThreadLevels == <<"MPI_THREAD_SINGLE", "MPI_THREAD_FUNNELED",
                  "MPI_THREAD_SERIALIZED", "MPI_THREAD_MULTIPLE">>

\* the state in which every process stands at position entry, nothing done yet
StartAt(entry) ==
    /\ num_messages = [p \in Ranks |-> arg_messages]
    /\ pc = [p \in Ranks |-> entry]
    /\ t_elapsed = [p \in Ranks |-> NoCells]
    /\ contig_buf = [p \in Ranks |-> "uninit"]
    /\ window = [p \in Ranks |-> "uninit"]
    /\ coll = [p \in Ranks |-> <<>>]
    /\ epoch = [open |-> FALSE, locks |-> 0, unlocks |-> 0]
    /\ tpc = [p \in Ranks |-> [t \in Tids |-> "idle"]]
    /\ omp_arrived = [p \in Ranks |-> [t \in Tids |-> 0]]
    /\ my_window = [p \in Ranks |-> [t \in Tids |-> "uninit"]]
    /\ target_disp = [p \in Ranks |-> [t \in Tids |-> <<0, 0>>]]
    /\ win_posts = [p \in Ranks |-> [t \in Tids |-> 0]]
    /\ win_post_i = [t \in Tids |-> 0]
    /\ win_i = [t \in Tids |-> 0]
    /\ host_buf = [t \in Tids |-> "uninit"]
    /\ ops = [t \in Tids |-> NoOps]
    /\ warned = [p \in Ranks |-> 0]
    /\ thread_i = 0
    /\ reads = [t \in Tids |-> 0]
    /\ msg_rate = FUninit
    /\ bandwidth = FUninit
    /\ rows = [t \in Tids |-> NoRow]

\* the entry of run_bench(), which main() calls with two ranks and full
\* thread support (line 245)
Start ==
    /\ provided = "MPI_THREAD_MULTIPLE"
    /\ comm_size = 2
    /\ alloc_fail = {}
    /\ StartAt("normalize")

Init ==
    /\ num_threads \in 1 .. MaxThreads
    /\ message_size \in MessageSizes
    /\ arg_messages \in MessageCounts
    /\ Start

\* main() after the command line is parsed (line 228), under any MPI runtime
InitMain ==
    /\ num_threads \in 1 .. MaxThreads
    /\ message_size \in MessageSizes
    /\ arg_messages \in MessageCounts
    /\ provided \in {ThreadLevels[i] : i \in 1 .. Len(ThreadLevels)}
    /\ comm_size \in 1 .. MaxCommSize
    /\ alloc_fail = {}
    /\ StartAt("init_thread")

\* the allocations of run_bench() : calloc (line 43), posix_memalign (lines 52, 89)
AllocSites == {"t_elapsed", "contig_buf", "host_buf"}

\* the entry of run_bench() when the C library is out of memory for some of them
InitAlloc ==
    /\ num_threads \in 1 .. MaxThreads
    /\ message_size \in MessageSizes
    /\ arg_messages \in MessageCounts
    /\ provided = "MPI_THREAD_MULTIPLE"
    /\ comm_size = 2
    /\ alloc_fail \in (SUBSET AllocSites) \ {{}}
    /\ StartAt("normalize")

InitSlot ==
    /\ num_threads \in 1 .. MaxSlotThreads
    /\ message_size \in SlotMessageSizes
    /\ arg_messages \in SlotMessageCounts
    /\ Start

(***************************************************************************)
(* MPI collectives over MPI_COMM_WORLD (two ranks).  A call is recorded in *)
(* coll; the caller returns once its peer has made as many collective      *)
(* calls as it has (MPI_Barrier and MPI_Win_free synchronise; so does      *)
(* MPI_Win_create, which exchanges the window's address).                  *)
(***************************************************************************)
\* mutant of CollectiveComplete : a collective that does not wait for the peer
CollectiveNoWait(p) == TRUE

CollectiveComplete(p) == Len(coll[Peer(p)]) >= Len(coll[p])

\* mutant of OmpBarrierOpen : the omp barrier is missing
OmpBarrierNone(p, k) == TRUE

\* an OpenMP barrier of the team of rank p: thread t has arrived at its k-th
\* barrier and leaves when every thread of the team has arrived at it
OmpBarrierOpen(p, k) == \A u \in Tids : omp_arrived[p][u] >= k

\* mutant of OmpMaster : every thread of the team runs the master construct
OmpMasterAny(t) == TRUE

\* #pragma omp master : the block is run by the thread whose number is 0
OmpMaster(t) == t = 0

\* mutant of RegionJoined : the region ends when its master thread is through
RegionJoinedMaster(p) == tpc[p][0] = "join"

\* the implicit barrier that ends the parallel region
RegionJoined(p) == \A u \in Tids : tpc[p][u] = "join"

(***************************************************************************)
(* main() : the two checks of the MPI runtime before run_bench().          *)
(* MPI_Abort(MPI_COMM_WORLD, 1) ends every process of the job.             *)
(***************************************************************************)
\* line 230 : provided != MPI_THREAD_MULTIPLE aborts
ThreadsProvided(level) == level = "MPI_THREAD_MULTIPLE"

\* mutant of SizeOk : more than two processes are let through
SizeAtLeastTwo(n) == n >= 2

\* line 236 : size != 2 aborts
SizeOk(n) == n = 2

\* lines 232 and 238 : MPI_Abort(MPI_COMM_WORLD, 1)
Abort == [q \in Ranks |-> IF q < comm_size THEN "aborted" ELSE pc[q]]

\* lines 229-233
InitThread(p) ==
    /\ pc[p] = "init_thread"
    /\ p < comm_size
    /\ pc' = IF ThreadsProvided(provided) THEN [pc EXCEPT ![p] = "comm_size"] ELSE Abort
    /\ UNCHANGED <<argVars, t_elapsed, contig_buf, window, coll, epoch, thread_i,
                   reads, sumVars, num_messages, tpc, omp_arrived, privVars, loopVars>>

\* lines 235-245 : the size check, then run_bench(rank, size)
CommSize(p) ==
    /\ pc[p] = "comm_size"
    /\ pc' = IF SizeOk(comm_size) THEN [pc EXCEPT ![p] = "normalize"] ELSE Abort
    /\ UNCHANGED <<argVars, t_elapsed, contig_buf, window, coll, epoch, thread_i,
                   reads, sumVars, num_messages, tpc, omp_arrived, privVars, loopVars>>

(***************************************************************************)
(* The initial thread of each rank, outside the parallel region.           *)
(***************************************************************************)
\* line 41
NormalizeMessages(p) ==
    /\ pc[p] = "normalize"
    /\ num_messages' = [num_messages EXCEPT ![p] = Normalize(num_messages[p], num_threads)]
    /\ pc' = [pc EXCEPT ![p] = "alloc"]
    /\ UNCHANGED <<argVars, t_elapsed, contig_buf, window, coll, epoch, tpc,
                   omp_arrived, privVars, loopVars, thread_i, reads, sumVars>>

\* calloc returns the zeroed cells, or NULL when it fails
Calloc(site, cells) == IF site \in alloc_fail THEN NoCells ELSE cells

\* posix_memalign stores the block in *memptr, or fails and leaves *memptr as it was
PosixMemalign(site, memptr) == IF site \in alloc_fail THEN memptr ELSE "alloc"

\* lines 43-53 : neither result is tested
Allocate(p) ==
    /\ pc[p] = "alloc"
    /\ t_elapsed' = [t_elapsed EXCEPT ![p] =
                        Calloc("t_elapsed", [t \in Tids |-> [writes |-> 0, value |-> FZero, writers |-> {}]])]
    /\ contig_buf' = [contig_buf EXCEPT ![p] =
                         IF p % 2 = 0 THEN "NULL" ELSE PosixMemalign("contig_buf", @)]
    /\ pc' = [pc EXCEPT ![p] = "win_create"]
    /\ UNCHANGED <<argVars, num_messages, window, coll, epoch, tpc, omp_arrived,
                   privVars, loopVars, thread_i, reads, sumVars>>

\* lines 56-62 : the call of MPI_Win_create
WinCreateCall(p) ==
    /\ pc[p] = "win_create"
    /\ coll' = [coll EXCEPT ![p] = Append(@, "MPI_Win_create")]
    /\ pc' = [pc EXCEPT ![p] = "win_create_wait"]
    /\ UNCHANGED <<argVars, num_messages, t_elapsed, contig_buf, window, epoch, tpc,
                   omp_arrived, privVars, loopVars, thread_i, reads, sumVars>>

\* lines 56-62 : the return of MPI_Win_create
WinCreateReturn(p) ==
    /\ pc[p] = "win_create_wait"
    /\ CollectiveComplete(p)
    /\ window' = [window EXCEPT ![p] = "live"]
    /\ pc' = [pc EXCEPT ![p] = IF p % 2 = 0 THEN "lock_all" ELSE "fork"]
    /\ UNCHANGED <<argVars, num_messages, t_elapsed, contig_buf, coll, epoch, tpc,
                   omp_arrived, privVars, loopVars, thread_i, reads, sumVars>>

\* mutant of LockEpoch : the call of MPI_Win_lock_all is missing
LockEpochMissing(e) == e

\* mutant of UnlockEpoch : the call of MPI_Win_unlock_all is missing
UnlockEpochMissing(e) == e

\* line 65 : MPI_Win_lock_all(MPI_MODE_NOCHECK, window)
LockEpoch(e) == [e EXCEPT !.open = TRUE, !.locks = @ + 1]

\* line 142 : MPI_Win_unlock_all(window)
UnlockEpoch(e) == [e EXCEPT !.open = FALSE, !.unlocks = @ + 1]

\* lines 64-65
LockAll(p) ==
    /\ pc[p] = "lock_all"
    /\ epoch' = LockEpoch(epoch)
    /\ pc' = [pc EXCEPT ![p] = "fork"]
    /\ UNCHANGED <<argVars, num_messages, t_elapsed, contig_buf, window, coll, tpc,
                   omp_arrived, privVars, loopVars, thread_i, reads, sumVars>>

\* line 67 : #pragma omp parallel starts the team
Fork(p) ==
    /\ pc[p] = "fork"
    /\ tpc' = [tpc EXCEPT ![p] = [t \in Tids |-> "init"]]
    /\ pc' = [pc EXCEPT ![p] = "parallel"]
    /\ UNCHANGED <<argVars, num_messages, t_elapsed, contig_buf, window, coll, epoch,
                   omp_arrived, privVars, loopVars, thread_i, reads, sumVars>>

\* line 139 : the region ends when every thread of the team has reached its end
Join(p) ==
    /\ pc[p] = "parallel"
    /\ RegionJoined(p)
    /\ pc' = [pc EXCEPT ![p] = IF p % 2 = 0 THEN "unlock_all" ELSE "barrier2"]
    /\ UNCHANGED <<argVars, num_messages, t_elapsed, contig_buf, window, coll, epoch,
                   tpc, omp_arrived, privVars, loopVars, thread_i, reads, sumVars>>

\* lines 141-142
UnlockAll(p) ==
    /\ pc[p] = "unlock_all"
    /\ epoch' = UnlockEpoch(epoch)
    /\ pc' = [pc EXCEPT ![p] = "win_free"]
    /\ UNCHANGED <<argVars, num_messages, t_elapsed, contig_buf, window, coll, tpc,
                   omp_arrived, privVars, loopVars, thread_i, reads, sumVars>>

\* line 143 : the putter's call of MPI_Win_free
WinFreeCall(p) ==
    /\ pc[p] = "win_free"
    /\ coll' = [coll EXCEPT ![p] = Append(@, "MPI_Win_free")]
    /\ pc' = [pc EXCEPT ![p] = "win_free_wait"]
    /\ UNCHANGED <<argVars, num_messages, t_elapsed, contig_buf, window, epoch, tpc,
                   omp_arrived, privVars, loopVars, thread_i, reads, sumVars>>

\* line 143 : the putter's return from MPI_Win_free
WinFreeReturn(p) ==
    /\ pc[p] = "win_free_wait"
    /\ CollectiveComplete(p)
    /\ window' = [window EXCEPT ![p] = "MPI_WIN_NULL"]
    /\ pc' = [pc EXCEPT ![p] = "barrier2"]
    /\ UNCHANGED <<argVars, num_messages, t_elapsed, contig_buf, coll, epoch, tpc,
                   omp_arrived, privVars, loopVars, thread_i, reads, sumVars>>

\* line 146 : the call of MPI_Barrier
Barrier2Call(p) ==
    /\ pc[p] = "barrier2"
    /\ coll' = [coll EXCEPT ![p] = Append(@, "MPI_Barrier")]
    /\ pc' = [pc EXCEPT ![p] = "barrier2_wait"]
    /\ UNCHANGED <<argVars, num_messages, t_elapsed, contig_buf, window, epoch, tpc,
                   omp_arrived, privVars, loopVars, thread_i, reads, sumVars>>

\* lines 146-152 : the return of MPI_Barrier; rank 0 goes on to msg_rate = 0,
\* bandwidth = 0 and the header row
Barrier2Return(p) ==
    /\ pc[p] = "barrier2_wait"
    /\ CollectiveComplete(p)
    /\ pc' = [pc EXCEPT ![p] = IF p % 2 = 0 THEN "report" ELSE "barrier3"]
    /\ msg_rate' = IF p % 2 = 0 THEN FZero ELSE msg_rate
    /\ bandwidth' = IF p % 2 = 0 THEN FZero ELSE bandwidth
    /\ UNCHANGED <<argVars, num_messages, t_elapsed, contig_buf, window, coll, epoch,
                   tpc, omp_arrived, privVars, loopVars, thread_i, reads, rows>>

\* lines 153-161 : one iteration of the reporting loop
ReportThread(p) ==
    /\ pc[p] = "report"
    /\ thread_i < num_threads
    /\ reads' = [reads EXCEPT ![thread_i] = @ + 1]
    /\ LET sample       == t_elapsed[p][thread_i].value
           my_msg_rate  == MsgRate(num_messages[p], sample)
           my_bandwidth == Bandwidth(message_size, num_messages[p], sample)
       IN  /\ rows' = [rows EXCEPT ![thread_i] = [rate |-> my_msg_rate, bw |-> my_bandwidth]]
           /\ msg_rate' = Accumulate(msg_rate, my_msg_rate)
           /\ bandwidth' = Accumulate(bandwidth, my_bandwidth)
    /\ thread_i' = thread_i + 1
    /\ UNCHANGED <<argVars, num_messages, pc, t_elapsed, contig_buf, window, coll,
                   epoch, tpc, omp_arrived, privVars, loopVars>>

\* lines 162-167 : the summary row, after the loop
ReportTotals(p) ==
    /\ pc[p] = "report"
    /\ thread_i >= num_threads
    /\ pc' = [pc EXCEPT ![p] = "barrier3"]
    /\ UNCHANGED <<argVars, num_messages, t_elapsed, contig_buf, window, coll, epoch,
                   tpc, omp_arrived, privVars, loopVars, thread_i, reads, sumVars>>

\* line 169 : the call of MPI_Barrier
Barrier3Call(p) ==
    /\ pc[p] = "barrier3"
    /\ coll' = [coll EXCEPT ![p] = Append(@, "MPI_Barrier")]
    /\ pc' = [pc EXCEPT ![p] = "barrier3_wait"]
    /\ UNCHANGED <<argVars, num_messages, t_elapsed, contig_buf, window, epoch, tpc,
                   omp_arrived, privVars, loopVars, thread_i, reads, sumVars>>

\* line 169 : the return of MPI_Barrier
Barrier3Return(p) ==
    /\ pc[p] = "barrier3_wait"
    /\ CollectiveComplete(p)
    /\ pc' = [pc EXCEPT ![p] = "free_buf"]
    /\ UNCHANGED <<argVars, num_messages, t_elapsed, contig_buf, window, coll, epoch,
                   tpc, omp_arrived, privVars, loopVars, thread_i, reads, sumVars>>

\* lines 171-173 : free(contig_buf) (free(NULL) on the putter) and return
FreeContigBuf(p) ==
    /\ pc[p] = "free_buf"
    /\ contig_buf' = [contig_buf EXCEPT ![p] = IF @ = "alloc" THEN "freed" ELSE @]
    /\ pc' = [pc EXCEPT ![p] = "done"]
    /\ UNCHANGED <<argVars, num_messages, t_elapsed, window, coll, epoch, tpc,
                   omp_arrived, privVars, loopVars, thread_i, reads, sumVars>>

(***************************************************************************)
(* The OpenMP threads of the parallel region (lines 67-139).               *)
(***************************************************************************)
\* mutant of LoopPc : the batch loop stops one batch early
LoopPcShort(i, n, body, exit) == IF i + 1 < n THEN body ELSE exit

\* where a thread stands after batch i of n : in the loop, or past it
LoopPc(i, n, body, exit) == IF i < n THEN body ELSE exit

\* lines 75-82 : the thread's private copies, and the accuracy warning
ThreadInit(p, t) ==
    /\ tpc[p][t] = "init"
    /\ my_window' = [my_window EXCEPT ![p][t] = window[p]]
    /\ \E d \in TargetDisp(t, message_size) :
           target_disp' = [target_disp EXCEPT ![p][t] = d]
    /\ win_posts' = [win_posts EXCEPT ![p][t] = WinPosts(num_messages[p])]
    /\ warned' = [warned EXCEPT ![p] =
                     IF WinPosts(num_messages[p]) * WINDOW_SIZE # num_messages[p]
                     THEN @ + 1 ELSE @]
    /\ tpc' = [tpc EXCEPT ![p][t] = IF p % 2 = 0 THEN "alloc_host" ELSE "master1"]
    /\ UNCHANGED <<argVars, procVars, omp_arrived, loopVars>>

\* line 89
AllocHost(t) ==
    /\ tpc[Putter][t] = "alloc_host"
    /\ host_buf' = [host_buf EXCEPT ![t] = PosixMemalign("host_buf", @)]
    /\ tpc' = [tpc EXCEPT ![Putter][t] = LoopPc(0, win_posts[Putter][t], "warmup", "master1")]
    /\ UNCHANGED <<argVars, procVars, omp_arrived, privVars, win_post_i, win_i, ops>>

\* lines 94-95 and 111-112 : MPI_Put(host_buf, my_message_size, MPI_CHAR, rank + 1,
\* target_disp, my_message_size, MPI_CHAR, my_window)
PutOp(t, phase) ==
    [kind |-> "put", phase |-> phase, rank |-> Putter + 1,
     disp |-> target_disp[Putter][t], size |-> message_size,
     epoch_open |-> epoch.open, win |-> my_window[Putter][t],
     shared_win |-> window[Putter],
     target_buf |-> contig_buf[Target], batch |-> win_i[t] + 1]

\* lines 97 and 114 : MPI_Win_flush(rank + 1, my_window)
FlushOp(t, phase) ==
    [kind |-> "flush", phase |-> phase, rank |-> Putter + 1,
     disp |-> target_disp[Putter][t], size |-> 0,
     epoch_open |-> epoch.open, win |-> my_window[Putter][t],
     shared_win |-> window[Putter],
     target_buf |-> contig_buf[Target], batch |-> win_i[t]]

\* mutant of BatchOpen : the inner loop runs once too often
BatchOpenOff(t) == win_i[t] <= WINDOW_SIZE

\* the inner loop runs while win_i < WINDOW_SIZE
BatchOpen(t) == win_i[t] < WINDOW_SIZE

\* lines 93-96 : one MPI_Put of the warmup loop
WarmupPut(t) ==
    /\ tpc[Putter][t] = "warmup"
    /\ BatchOpen(t)
    /\ ops' = [ops EXCEPT ![t].warm_puts = @ + 1, ![t].unflushed = @ + 1,
                          ![t].last = PutOp(t, "warmup")]
    /\ win_i' = [win_i EXCEPT ![t] = @ + 1]
    /\ UNCHANGED <<argVars, procVars, tpc, omp_arrived, privVars, win_post_i, host_buf>>

\* line 97 : the flush that ends a warmup batch, and the outer loop's step
WarmupFlush(t) ==
    /\ tpc[Putter][t] = "warmup"
    /\ ~BatchOpen(t)
    /\ ops' = [ops EXCEPT ![t].warm_flushes = @ + 1, ![t].unflushed = 0,
                          ![t].last = FlushOp(t, "warmup")]
    /\ win_i' = [win_i EXCEPT ![t] = 0]
    /\ win_post_i' = [win_post_i EXCEPT ![t] = @ + 1]
    /\ tpc' = [tpc EXCEPT ![Putter][t] =
                  LoopPc(win_post_i[t] + 1, win_posts[Putter][t], "warmup", "master1")]
    /\ UNCHANGED <<argVars, procVars, omp_arrived, privVars, host_buf>>

\* lines 100-103 and 126-129 : the master thread calls MPI_Barrier
MasterBarrierCall(p, t) ==
    /\ tpc[p][t] = "master1"
    /\ OmpMaster(t)
    /\ coll' = [coll EXCEPT ![p] = Append(@, "MPI_Barrier")]
    /\ tpc' = [tpc EXCEPT ![p][t] = "master1_wait"]
    /\ UNCHANGED <<argVars, num_messages, pc, t_elapsed, contig_buf, window, epoch,
                   thread_i, reads, sumVars, omp_arrived, privVars, loopVars>>

\* lines 100-104 and 126-130 : the master returns from MPI_Barrier and arrives at
\* the omp barrier
MasterBarrierReturn(p, t) ==
    /\ tpc[p][t] = "master1_wait"
    /\ CollectiveComplete(p)
    /\ omp_arrived' = [omp_arrived EXCEPT ![p][t] = @ + 1]
    /\ tpc' = [tpc EXCEPT ![p][t] = "omp1"]
    /\ UNCHANGED <<argVars, procVars, privVars, loopVars>>

\* lines 100-104 and 126-130 : a thread that is not the master skips the master
\* construct (it has no implied barrier) and arrives at the omp barrier
SkipMasterBarrier(p, t) ==
    /\ tpc[p][t] = "master1"
    /\ ~OmpMaster(t)
    /\ omp_arrived' = [omp_arrived EXCEPT ![p][t] = @ + 1]
    /\ tpc' = [tpc EXCEPT ![p][t] = "omp1"]
    /\ UNCHANGED <<argVars, procVars, privVars, loopVars>>

\* lines 104 and 130 : the omp barrier releases the thread
OmpBarrier1Leave(p, t) ==
    /\ tpc[p][t] = "omp1"
    /\ OmpBarrierOpen(p, 1)
    /\ tpc' = [tpc EXCEPT ![p][t] = IF p % 2 = 0 THEN "start" ELSE "master_free"]
    /\ UNCHANGED <<argVars, procVars, omp_arrived, privVars, loopVars>>

\* line 107 : t_start = MPI_Wtime()
StartTimer(t) ==
    /\ tpc[Putter][t] = "start"
    /\ ops' = [ops EXCEPT ![t].started = TRUE]
    /\ win_post_i' = [win_post_i EXCEPT ![t] = 0]
    /\ win_i' = [win_i EXCEPT ![t] = 0]
    /\ tpc' = [tpc EXCEPT ![Putter][t] = LoopPc(0, win_posts[Putter][t], "measure", "end")]
    /\ UNCHANGED <<argVars, procVars, omp_arrived, privVars, host_buf>>

\* lines 110-113 : one MPI_Put of the measured loop
MeasuredPut(t) ==
    /\ tpc[Putter][t] = "measure"
    /\ BatchOpen(t)
    /\ ops' = [ops EXCEPT ![t].meas_puts = @ + 1, ![t].unflushed = @ + 1,
                          ![t].last = PutOp(t, "measure")]
    /\ win_i' = [win_i EXCEPT ![t] = @ + 1]
    /\ UNCHANGED <<argVars, procVars, tpc, omp_arrived, privVars, win_post_i, host_buf>>

\* line 114 : the flush that ends a measured batch, and the outer loop's step
MeasuredFlush(t) ==
    /\ tpc[Putter][t] = "measure"
    /\ ~BatchOpen(t)
    /\ ops' = [ops EXCEPT ![t].meas_flushes = @ + 1, ![t].unflushed = 0,
                          ![t].last = FlushOp(t, "measure")]
    /\ win_i' = [win_i EXCEPT ![t] = 0]
    /\ win_post_i' = [win_post_i EXCEPT ![t] = @ + 1]
    /\ tpc' = [tpc EXCEPT ![Putter][t] =
                  LoopPc(win_post_i[t] + 1, win_posts[Putter][t], "measure", "end")]
    /\ UNCHANGED <<argVars, procVars, omp_arrived, privVars, host_buf>>

\* mutant of ElapsedSlot : every thread writes slot 0
ElapsedSlotZero(t) == 0

\* the slot of t_elapsed that thread t writes at line 118
ElapsedSlot(t) == t

\* lines 117-118 : t_end = MPI_Wtime(); t_elapsed[tid] = t_end - t_start.  The
\* duration is counted in the puts and flushes the thread made in between.
StopTimer(t) ==
    /\ tpc[Putter][t] = "end"
    /\ ops' = [ops EXCEPT ![t].ended = TRUE]
    /\ t_elapsed' = [t_elapsed EXCEPT ![Putter][ElapsedSlot(t)] =
                        [writes |-> @.writes + 1,
                         value |-> FromInt(ops[t].meas_puts + ops[t].meas_flushes),
                         writers |-> @.writers \cup {t}]]
    /\ tpc' = [tpc EXCEPT ![Putter][t] = "free_host"]
    /\ UNCHANGED <<argVars, num_messages, pc, contig_buf, window, coll, epoch,
                   thread_i, reads, sumVars, omp_arrived, privVars, win_post_i, win_i, host_buf>>

\* line 120 : free(host_buf), then the end of the region
FreeHost(t) ==
    /\ tpc[Putter][t] = "free_host"
    /\ host_buf' = [host_buf EXCEPT ![t] = IF @ = "alloc" THEN "freed" ELSE @]
    /\ tpc' = [tpc EXCEPT ![Putter][t] = "join"]
    /\ UNCHANGED <<argVars, procVars, omp_arrived, privVars, win_post_i, win_i, ops>>

\* lines 133-136 : the target's master thread calls MPI_Win_free(&window)
TargetWinFreeCall(t) ==
    /\ tpc[Target][t] = "master_free"
    /\ OmpMaster(t)
    /\ coll' = [coll EXCEPT ![Target] = Append(@, "MPI_Win_free")]
    /\ tpc' = [tpc EXCEPT ![Target][t] = "master_free_wait"]
    /\ UNCHANGED <<argVars, num_messages, pc, t_elapsed, contig_buf, window, epoch,
                   thread_i, reads, sumVars, omp_arrived, privVars, loopVars>>

\* lines 133-137 : MPI_Win_free returns on the target, window becomes
\* MPI_WIN_NULL and the master arrives at the second omp barrier
TargetWinFreeReturn(t) ==
    /\ tpc[Target][t] = "master_free_wait"
    /\ CollectiveComplete(Target)
    /\ window' = [window EXCEPT ![Target] = "MPI_WIN_NULL"]
    /\ omp_arrived' = [omp_arrived EXCEPT ![Target][t] = @ + 1]
    /\ tpc' = [tpc EXCEPT ![Target][t] = "omp2"]
    /\ UNCHANGED <<argVars, num_messages, pc, t_elapsed, contig_buf, coll, epoch,
                   thread_i, reads, sumVars, privVars, loopVars>>

\* lines 133-137 : the target's other threads skip the master construct
TargetSkipWinFree(t) ==
    /\ tpc[Target][t] = "master_free"
    /\ ~OmpMaster(t)
    /\ omp_arrived' = [omp_arrived EXCEPT ![Target][t] = @ + 1]
    /\ tpc' = [tpc EXCEPT ![Target][t] = "omp2"]
    /\ UNCHANGED <<argVars, procVars, privVars, loopVars>>

\* line 137 : the second omp barrier of the target releases the thread
OmpBarrier2Leave(t) ==
    /\ tpc[Target][t] = "omp2"
    /\ OmpBarrierOpen(Target, 2)
    /\ tpc' = [tpc EXCEPT ![Target][t] = "join"]
    /\ UNCHANGED <<argVars, procVars, omp_arrived, privVars, loopVars>>

(***************************************************************************)
(* The next-state relation.                                                *)
(***************************************************************************)
Next ==
    \/ \E p \in Ranks : NormalizeMessages(p)
    \/ \E p \in Ranks : Allocate(p)
    \/ \E p \in Ranks : WinCreateCall(p)
    \/ \E p \in Ranks : WinCreateReturn(p)
    \/ LockAll(Putter)
    \/ \E p \in Ranks : Fork(p)
    \/ \E p \in Ranks : Join(p)
    \/ UnlockAll(Putter)
    \/ WinFreeCall(Putter)
    \/ WinFreeReturn(Putter)
    \/ \E p \in Ranks : Barrier2Call(p)
    \/ \E p \in Ranks : Barrier2Return(p)
    \/ ReportThread(Putter)
    \/ ReportTotals(Putter)
    \/ \E p \in Ranks : Barrier3Call(p)
    \/ \E p \in Ranks : Barrier3Return(p)
    \/ \E p \in Ranks : FreeContigBuf(p)
    \/ \E p \in Ranks, t \in Tids : ThreadInit(p, t)
    \/ \E t \in Tids : AllocHost(t)
    \/ \E t \in Tids : WarmupPut(t)
    \/ \E t \in Tids : WarmupFlush(t)
    \/ \E p \in Ranks, t \in Tids : MasterBarrierCall(p, t)
    \/ \E p \in Ranks, t \in Tids : MasterBarrierReturn(p, t)
    \/ \E p \in Ranks, t \in Tids : SkipMasterBarrier(p, t)
    \/ \E p \in Ranks, t \in Tids : OmpBarrier1Leave(p, t)
    \/ \E t \in Tids : StartTimer(t)
    \/ \E t \in Tids : MeasuredPut(t)
    \/ \E t \in Tids : MeasuredFlush(t)
    \/ \E t \in Tids : StopTimer(t)
    \/ \E t \in Tids : FreeHost(t)
    \/ \E t \in Tids : TargetWinFreeCall(t)
    \/ \E t \in Tids : TargetWinFreeReturn(t)
    \/ \E t \in Tids : TargetSkipWinFree(t)
    \/ \E t \in Tids : OmpBarrier2Leave(t)

Spec == Init /\ [][Next]_vars

(***************************************************************************)
(* The slot arithmetic (lines 46 and 78) on the whole range of int: the    *)
(* run up to the first MPI_Put of each putter thread.                      *)
(***************************************************************************)
FirstPut(t) ==
    /\ win_post_i[t] = 0
    /\ win_i[t] = 0
    /\ WarmupPut(t)

NextSlot ==
    \/ \E p \in Ranks : NormalizeMessages(p)
    \/ \E p \in Ranks : Allocate(p)
    \/ \E p \in Ranks : WinCreateCall(p)
    \/ \E p \in Ranks : WinCreateReturn(p)
    \/ LockAll(Putter)
    \/ \E p \in Ranks : Fork(p)
    \/ \E p \in Ranks, t \in Tids : ThreadInit(p, t)
    \/ \E t \in Tids : AllocHost(t)
    \/ \E t \in Tids : FirstPut(t)

SpecSlot == InitSlot /\ [][NextSlot]_vars

(***************************************************************************)
(* The whole of main() from line 228 on: the runtime checks, then the run. *)
(***************************************************************************)
(***************************************************************************)
(* The reporting loop (lines 148-167) on its own: rank 0 as the barrier of *)
(* line 146 leaves it, after a run of num_messages messages per thread in  *)
(* which MPI_Wtime() gave the threads the elapsed times of Samples.        *)
(***************************************************************************)
\* n * 2^e as a double
Dyadic(n, e) == FRound(PInt(n), e, FALSE)

\* the greatest double below 2, and the one below that
BelowTwo == [cls |-> "fin", m |-> <<2^23 - 1, 2^30 - 1>>, e |-> -52]
BelowBelowTwo == [cls |-> "fin", m |-> <<2^23 - 1, 2^30 - 2>>, e |-> -52]

Samples == {FZero, FromInt(1), FromInt(2), BelowTwo, BelowBelowTwo, Dyadic(5, -2)}
RateMessageSizes == {DEF_MESSAGE_SIZE, 1024}
RateMessageCounts == {0, WINDOW_SIZE, 1000000}

\* the last operation of a putter thread that made at least one batch
LastFlush(t) ==
    [kind |-> "flush", phase |-> "measure", rank |-> Putter + 1,
     disp |-> WideMul(message_size, t), size |-> 0, epoch_open |-> TRUE,
     win |-> "live", shared_win |-> "live", target_buf |-> "alloc",
     batch |-> WINDOW_SIZE]

InitRate ==
    /\ num_threads \in 1 .. MaxThreads
    /\ message_size \in RateMessageSizes
    /\ \E n \in RateMessageCounts :
          /\ arg_messages = n * num_threads
          /\ num_messages = [p \in Ranks |-> n]
          /\ win_posts = [p \in Ranks |-> [t \in Tids |-> WinPosts(n)]]
          /\ win_post_i = [t \in Tids |-> WinPosts(n)]
          /\ ops = [t \in Tids |->
                       [warm_puts |-> n, warm_flushes |-> WinPosts(n),
                        meas_puts |-> n, meas_flushes |-> WinPosts(n),
                        unflushed |-> 0, started |-> TRUE, ended |-> TRUE,
                        last |-> IF n = 0 THEN NoOp ELSE LastFlush(t)]]
    /\ provided = "MPI_THREAD_MULTIPLE"
    /\ comm_size = 2
    /\ alloc_fail = {}
    /\ pc = [p \in Ranks |-> IF p = Putter THEN "report" ELSE "barrier3"]
    /\ \E sample \in [Tids -> Samples] :
          t_elapsed = [p \in Ranks |-> [t \in Tids |->
                          IF p = Putter
                          THEN [writes |-> 1, value |-> sample[t], writers |-> {t}]
                          ELSE [writes |-> 0, value |-> FZero, writers |-> {}]]]
    /\ contig_buf = [p \in Ranks |-> IF p = Putter THEN "NULL" ELSE "alloc"]
    /\ window = [p \in Ranks |-> "MPI_WIN_NULL"]
    /\ coll = [p \in Ranks |-> <<"MPI_Win_create", "MPI_Barrier", "MPI_Win_free", "MPI_Barrier">>]
    /\ epoch = [open |-> FALSE, locks |-> 1, unlocks |-> 1]
    /\ tpc = [p \in Ranks |-> [t \in Tids |-> "join"]]
    /\ omp_arrived = [p \in Ranks |-> [t \in Tids |-> IF p = Putter THEN 1 ELSE 2]]
    /\ my_window = [p \in Ranks |-> [t \in Tids |-> "live"]]
    /\ target_disp = [p \in Ranks |-> [t \in Tids |-> WideMul(message_size, t)]]
    /\ win_i = [t \in Tids |-> 0]
    /\ host_buf = [t \in Tids |-> "freed"]
    /\ warned = [p \in Ranks |-> 0]
    /\ thread_i = 0
    /\ reads = [t \in Tids |-> 0]
    /\ msg_rate = FZero
    /\ bandwidth = FZero
    /\ rows = [t \in Tids |-> NoRow]

NextRate ==
    \/ ReportThread(Putter)
    \/ ReportTotals(Putter)

SpecRate == InitRate /\ [][NextRate]_vars

\* run_bench() up to each thread's first MPI_Put when allocations fail
SpecAlloc == InitAlloc /\ [][NextSlot]_vars

\* lines 153-161 : rank 0 is in the reporting loop with an iteration left
ReportPending == pc[Putter] = "report" /\ thread_i < num_threads

\* lines 153-161 : the loop counter's part of ReportThread; under [][Next]_vars
\* a step that satisfies it is a ReportThread step, and ReportThread is enabled
\* exactly when ReportPending holds
ReportLoopStep == ReportPending /\ thread_i' = thread_i + 1

\* the run under a fair scheduler: a process or thread that can take a step
\* is not held back forever.  Fairness of the reporting loop is stated on its
\* guard and counter, so that enabledness does not depend on the arithmetic
\* of the row.
FairSpec ==
    /\ Init
    /\ [][Next]_vars
    /\ WF_vars(~ReportPending /\ Next)
    /\ WF_thread_i(ReportLoopStep)

NextMain ==
    \/ \E p \in Ranks : InitThread(p)
    \/ \E p \in Ranks : CommSize(p)
    \/ Next

SpecMain == InitMain /\ [][NextMain]_vars

(***************************************************************************)
(* Vocabulary of the properties.                                           *)
(***************************************************************************)
\* batches per thread and phase that the run is meant to make
Batches == arg_messages \div (num_threads * WINDOW_SIZE)

Called(p, c) == \E i \in 1 .. Len(coll[p]) : coll[p][i] = c

\* the first cross-peer barrier is the second collective call of a rank
Barrier1Called(p) == Len(coll[p]) >= 2 /\ coll[p][2] = "MPI_Barrier"
PastBarrier1(p) == omp_arrived[p][0] >= 1

BeforeWarmupEnd == {"idle", "init", "alloc_host", "warmup"}
AfterMeasure == {"end", "free_host", "join"}
Measuring == {"start", "measure"} \cup AfterMeasure

\* thread u of the putter has no warmup put left to issue or to flush
WarmupFlushed(u) ==
    /\ ops[u].warm_puts = Batches * WINDOW_SIZE
    /\ ops[u].warm_flushes = Batches
    /\ ops[u].meas_puts = 0 => ops[u].unflushed = 0

\* thread u of the putter has no put of either phase left to issue or to flush
AllPutsFlushed(u) ==
    /\ WarmupFlushed(u)
    /\ ops[u].meas_puts = Batches * WINDOW_SIZE
    /\ ops[u].meas_flushes = Batches
    /\ ops[u].unflushed = 0

\* thread u of the putter has left its warmup loop, every batch flushed
WarmupComplete(u) ==
    /\ tpc[Putter][u] \notin BeforeWarmupEnd
    /\ WarmupFlushed(u)

\* thread u of the putter has left its measured loop, every batch flushed
AllPutsComplete(u) ==
    /\ tpc[Putter][u] \in AfterMeasure
    /\ AllPutsFlushed(u)

\* t_elapsed of rank p has been allocated (line 43)
Allocated(p) == pc[p] \notin {"normalize", "alloc"}

SomePut == \E t \in Tids : ops[t].last.kind # "none"

\* a run in which two threads put at least one batch each
TwoThreadsPut == num_threads >= 2 /\ Batches >= 1

(***************************************************************************)
(* C1 : on the putter the lock_all epoch is opened once, before any thread *)
(* puts, never re-acquired, and closed once, after every thread has        *)
(* finished its warmup and its measured loop; every put and every flush is *)
(* issued while the epoch is open.                                         *)
(***************************************************************************)
C1_SingleEpoch ==
    /\ epoch.locks <= 1
    /\ epoch.unlocks <= 1
    /\ epoch.unlocks <= epoch.locks
    /\ epoch.open <=> (epoch.locks = 1 /\ epoch.unlocks = 0)
    /\ SomePut => epoch.locks = 1
    /\ \A t \in Tids : ops[t].last.kind # "none" => ops[t].last.epoch_open
    /\ epoch.unlocks = 1 =>
          \A t \in Tids : AllPutsComplete(t) /\ ops[t].ended /\ tpc[Putter][t] = "join"

C1_Witness ==
    /\ TwoThreadsPut
    /\ epoch.unlocks = 1
    /\ \A t \in Tids : ops[t].meas_puts = WINDOW_SIZE

(***************************************************************************)
(* C2 (as claimed) : neither rank has called MPI_Win_free while a putter   *)
(* thread still has a warmup or measured put to issue or to flush.         *)
(***************************************************************************)
C2_FreeCalledAfterAllPuts ==
    \A p \in Ranks : Called(p, "MPI_Win_free") => \A t \in Tids : AllPutsFlushed(t)

(***************************************************************************)
(* C2 (amended) : the putter calls MPI_Win_free only after every thread    *)
(* has issued and flushed all its puts and the epoch is closed; the target *)
(* may call it earlier, but MPI_Win_free returns on neither rank before    *)
(* both have called it, hence not before all puts are complete.            *)
(***************************************************************************)
C2_FreeCompletesAfterAllPuts ==
    /\ Called(Putter, "MPI_Win_free") =>
          /\ \A t \in Tids : AllPutsComplete(t)
          /\ ~epoch.open /\ epoch.unlocks = 1
    /\ \A p \in Ranks : window[p] = "MPI_WIN_NULL" =>
          /\ \A t \in Tids : AllPutsComplete(t)
          /\ \A q \in Ranks : Called(q, "MPI_Win_free")

C2_Witness ==
    /\ TwoThreadsPut
    /\ \A p \in Ranks : window[p] = "MPI_WIN_NULL"

(***************************************************************************)
(* C3 : no putter thread takes its start timestamp or issues a measured    *)
(* put before every putter thread has completed its warmup and both ranks  *)
(* have arrived at the first cross-peer barrier; neither rank passes that  *)
(* barrier before the other has arrived.                                   *)
(***************************************************************************)
C3_Barrier1Rendezvous ==
    /\ \A t \in Tids :
          (ops[t].started \/ ops[t].meas_puts > 0 \/ tpc[Putter][t] \in Measuring \ {"start"}) =>
              /\ \A u \in Tids : WarmupComplete(u)
              /\ \A p \in Ranks : Barrier1Called(p)
    /\ \A p \in Ranks : PastBarrier1(p) => Barrier1Called(Peer(p))

C3_Witness ==
    /\ TwoThreadsPut
    /\ \E t \in Tids : ops[t].started /\ ops[t].meas_puts = 1
    /\ \E u \in Tids : ~ops[u].started

(***************************************************************************)
(* C4 (as claimed) : the putter enters the first cross-peer barrier, and   *)
(* the target is released from it, only after all warmup batches of all    *)
(* putter threads have been issued and flushed.                            *)
(***************************************************************************)
C4_Barrier1AfterAllWarmup ==
    /\ Barrier1Called(Putter) => \A u \in Tids : WarmupFlushed(u)
    /\ PastBarrier1(Target) => \A u \in Tids : WarmupFlushed(u)

(***************************************************************************)
(* C4 (amended) : the putter enters the first cross-peer barrier, and the  *)
(* target is released from it, only after the putter's master thread       *)
(* (thread 0) has issued and flushed all of its own warmup batches; with   *)
(* one thread that is all warmup batches.                                  *)
(***************************************************************************)
C4_Barrier1AfterMasterWarmup ==
    /\ Barrier1Called(Putter) => WarmupComplete(0)
    /\ PastBarrier1(Target) => WarmupComplete(0)
    /\ num_threads = 1 => C4_Barrier1AfterAllWarmup

C4_Witness ==
    /\ TwoThreadsPut
    /\ PastBarrier1(Target)
    /\ WarmupComplete(0)
    /\ \E u \in Tids : tpc[Putter][u] = "warmup" /\ ops[u].unflushed > 0

(***************************************************************************)
(* C5 : the target frees the window's buffer only after the putter has     *)
(* completed every put, closed the epoch and freed its side of the window, *)
(* and after a cross-peer barrier that follows the putter's window free;   *)
(* no put is issued or in flight against a freed buffer.                   *)
(***************************************************************************)
C5_TargetFreesBufferLast ==
    /\ contig_buf[Target] = "freed" =>
          /\ \A t \in Tids : AllPutsComplete(t) /\ tpc[Putter][t] = "join"
          /\ ~epoch.open /\ epoch.unlocks = 1
          /\ window[Putter] = "MPI_WIN_NULL"
          /\ \A p \in Ranks :
                /\ Len(coll[p]) >= 4
                /\ coll[p][3] = "MPI_Win_free"
                /\ coll[p][4] = "MPI_Barrier"
    /\ \A t \in Tids : ops[t].last.kind = "put" => ops[t].last.target_buf = "alloc"

C5_Witness ==
    /\ TwoThreadsPut
    /\ contig_buf[Target] = "freed"
    /\ \A t \in Tids : ops[t].last.kind = "flush"

(***************************************************************************)
(* C6 : every put of putter thread tid goes to rank 1 and covers exactly   *)
(* the bytes [tid*message_size, (tid+1)*message_size); the ranges of two   *)
(* threads never overlap and each lies inside the target window of         *)
(* message_size*num_threads bytes.                                         *)
(***************************************************************************)
SlotLo(t) == WideMul(message_size, t)
SlotHi(t) == WideMul(message_size, t + 1)
PutLo(t) == ops[t].last.disp
PutHi(t) == WideAdd(ops[t].last.disp, ops[t].last.size)
HasPut(t) == ops[t].last.kind = "put"

C6_SlotsDisjointInBounds ==
    /\ \A t \in Tids : HasPut(t) =>
          /\ ops[t].last.rank = Target
          /\ PutLo(t) = SlotLo(t)
          /\ PutHi(t) = SlotHi(t)
          /\ WideLeq(<<0, 0>>, PutLo(t))
          /\ WideLeq(PutHi(t), WideMul(message_size, num_threads))
    /\ \A t, u \in Tids : (t # u /\ HasPut(t) /\ HasPut(u)) =>
          WideLeq(PutHi(t), PutLo(u)) \/ WideLeq(PutHi(u), PutLo(t))

(***************************************************************************)
(* C7 : in the warmup and in the measured phase alike each putter thread   *)
(* issues exactly total_messages/WINDOW_SIZE batches of exactly            *)
(* WINDOW_SIZE puts followed by one flush, with the same slot parameters;  *)
(* it never has more than WINDOW_SIZE puts unflushed and has none when it  *)
(* takes its end timestamp and writes its elapsed-time sample.             *)
(***************************************************************************)
C7_BatchFlushDiscipline ==
    \A t \in Tids :
        /\ ops[t].unflushed <= WINDOW_SIZE
        /\ ops[t].warm_puts + ops[t].meas_puts
              = (ops[t].warm_flushes + ops[t].meas_flushes) * WINDOW_SIZE + ops[t].unflushed
        /\ ops[t].last.kind = "flush" => ops[t].last.batch = WINDOW_SIZE /\ ops[t].unflushed = 0
        /\ ops[t].last.kind = "put" =>
              /\ ops[t].last.batch = ops[t].unflushed
              /\ ops[t].last.batch >= 1
              /\ ops[t].last.size = message_size
        /\ ops[t].last.kind # "none" =>
              /\ ops[t].last.rank = Target
              /\ ops[t].last.disp = target_disp[Putter][t]
              /\ ops[t].last.win = "live"
        /\ ops[t].warm_flushes <= Batches
        /\ ops[t].meas_flushes <= Batches
        /\ tpc[Putter][t] \notin BeforeWarmupEnd =>
              ops[t].warm_flushes = Batches /\ ops[t].warm_puts = Batches * WINDOW_SIZE
        /\ (ops[t].ended \/ (Allocated(Putter) /\ t_elapsed[Putter][t].writes > 0)) =>
              /\ ops[t].unflushed = 0
              /\ ops[t].meas_flushes = Batches
              /\ ops[t].meas_puts = Batches * WINDOW_SIZE

C7_Witness ==
    /\ Batches = 2
    /\ \E t \in Tids : ops[t].ended /\ ops[t].meas_flushes = 2 /\ ops[t].warm_flushes = 2

(***************************************************************************)
(* C8 : each slot of t_elapsed is written exactly once, by the thread that *)
(* owns it and after that thread's measured loop; the reporting loop reads *)
(* it exactly once, after all threads have been joined and a cross-peer    *)
(* barrier; no slot is read before it is written.                          *)
(***************************************************************************)
AfterReport == {"barrier3", "barrier3_wait", "free_buf", "done"}

C8_ElapsedSlots ==
    /\ \A p \in Ranks : Allocated(p) => \A t \in Tids :
          /\ t_elapsed[p][t].writes <= 1
          /\ t_elapsed[p][t].writers \subseteq {t}
          /\ p = Target => t_elapsed[p][t].writes = 0
    /\ Allocated(Putter) => \A t \in Tids :
          /\ t_elapsed[Putter][t].writes = 1 <=> ops[t].ended
          /\ t_elapsed[Putter][t].writes = 1 =>
                /\ tpc[Putter][t] \in {"free_host", "join"}
                /\ ops[t].meas_flushes = Batches
          /\ tpc[Putter][t] \in {"free_host", "join"} => t_elapsed[Putter][t].writes = 1
    /\ \A t \in Tids :
          /\ reads[t] <= 1
          /\ reads[t] = 1 =>
                /\ \A u \in Tids : t_elapsed[Putter][u].writes = 1 /\ tpc[Putter][u] = "join"
                /\ pc[Putter] \in {"report"} \cup AfterReport
                /\ \A p \in Ranks : Len(coll[p]) >= 4 /\ coll[p][4] = "MPI_Barrier"
          /\ pc[Putter] \in AfterReport => reads[t] = 1

C8_Witness ==
    /\ TwoThreadsPut
    /\ pc[Putter] = "done"
    /\ \A t \in Tids : reads[t] = 1 /\ FLess(FZero, t_elapsed[Putter][t].value)

(***************************************************************************)
(* C9 (as claimed) : the metrics are reported only after the last          *)
(* cross-peer barrier: once the putter has started to report, it makes no  *)
(* further collective call.                                                *)
(***************************************************************************)
ReportStarted == thread_i > 0 \/ pc[Putter] \in AfterReport

C9_ReportedAfterLastBarrier ==
    [][ReportStarted => coll'[Putter] = coll[Putter]]_vars

(***************************************************************************)
(* C9 (amended) : the putter passes through Idle, WindowReady, EpochOpen,  *)
(* Warmup, Barrier1, Measuring, the join of the parallel region (the       *)
(* barrier between Measuring and closing the epoch, which is not a         *)
(* cross-peer barrier), EpochClosed, WindowFreed, the second cross-peer    *)
(* barrier, Reported, the last cross-peer barrier, in this order; the      *)
(* metrics are reported after the cross-peer barrier that follows the      *)
(* window free and before the last cross-peer barrier.                     *)
(***************************************************************************)
Phase ==
    CASE pc[Putter] \in {"normalize", "alloc", "win_create", "win_create_wait"} -> 0
      [] pc[Putter] = "lock_all" -> 1
      [] pc[Putter] = "fork" -> 2
      [] pc[Putter] = "parallel" /\ tpc[Putter][0] \in {"init", "alloc_host"} -> 2
      [] pc[Putter] = "parallel" /\ tpc[Putter][0] = "warmup" -> 3
      [] pc[Putter] = "parallel" /\ tpc[Putter][0] \in {"master1", "master1_wait", "omp1"} -> 4
      [] pc[Putter] = "parallel" /\ tpc[Putter][0] \in {"start", "measure", "end", "free_host"} -> 5
      [] pc[Putter] = "parallel" /\ tpc[Putter][0] = "join" -> 6
      [] pc[Putter] = "unlock_all" -> 6
      [] pc[Putter] \in {"win_free", "win_free_wait"} -> 7
      [] pc[Putter] = "barrier2" -> 8
      [] pc[Putter] = "barrier2_wait" -> 9
      [] pc[Putter] \in {"report", "barrier3"} -> 10
      [] pc[Putter] = "barrier3_wait" -> 11
      [] pc[Putter] \in {"free_buf", "done"} -> 12

PhaseFacts ==
    /\ epoch.open <=> Phase \in 2 .. 6
    /\ window[Putter] = "live" <=> Phase \in 1 .. 7
    /\ window[Putter] = "MPI_WIN_NULL" <=> Phase >= 8
    /\ Phase >= 7 =>
          /\ epoch.unlocks = 1
          /\ \A t \in Tids : tpc[Putter][t] = "join" /\ ops[t].ended
    /\ Phase >= 5 => \A p \in Ranks : Barrier1Called(p)
    /\ Phase = 10 =>
          /\ Len(coll[Putter]) = 4
          /\ \A p \in Ranks : Len(coll[p]) >= 4 /\ coll[p][3] = "MPI_Win_free"
                                 /\ coll[p][4] = "MPI_Barrier"
    /\ ReportStarted => Phase >= 10
    /\ Phase >= 11 => Len(coll[Putter]) = 5 /\ coll[Putter][5] = "MPI_Barrier"
                         /\ thread_i = num_threads

PhaseStep ==
    \/ Phase' = Phase
    \/ Phase' = Phase + 1
    \/ Phase = 2 /\ Phase' = 4 /\ Batches = 0

C9_PhaseOrder == []PhaseFacts /\ [][PhaseStep]_vars

C9_Witness ==
    /\ TwoThreadsPut
    /\ pc[Putter] = "report"
    /\ thread_i = num_threads
    /\ pc[Target] = "barrier3_wait"

(***************************************************************************)
(* C10 : the per-thread message count of the run is                        *)
(* W * floor(num_messages / num_threads / W), the largest multiple of W    *)
(* not above num_messages / num_threads; it is computed once, before the   *)
(* threads are forked, and does not change afterwards.                     *)
(***************************************************************************)
C10_Normalization ==
    \A p \in Ranks :
        /\ pc[p] = "normalize" => num_messages[p] = arg_messages
        /\ pc[p] # "normalize" =>
              /\ num_messages[p] = WINDOW_SIZE * (arg_messages \div (num_threads * WINDOW_SIZE))
              /\ num_messages[p] % WINDOW_SIZE = 0
              /\ num_messages[p] * num_threads <= arg_messages
              /\ (num_messages[p] + WINDOW_SIZE) * num_threads > arg_messages
        /\ \A t \in Tids :
              /\ tpc[p][t] # "idle" => pc[p] \notin {"normalize", "alloc"}
              /\ tpc[p][t] \notin {"idle", "init"} =>
                    win_posts[p][t] * WINDOW_SIZE = num_messages[p]

C10_Witness ==
    /\ num_threads = 2
    /\ arg_messages = MaxMessages
    /\ \A p \in Ranks : pc[p] = "done" /\ num_messages[p] = WINDOW_SIZE

(***************************************************************************)
(* C11 : a thread that has passed the check of lines 80-82 has printed the *)
(* accuracy warning exactly when the requested per-thread message count    *)
(* (num_messages / num_threads, as main() left them) is not a multiple of  *)
(* WINDOW_SIZE.                                                            *)
(***************************************************************************)
C11_AccuracyWarning ==
    \A p \in Ranks : \A t \in Tids :
        tpc[p][t] \notin {"idle", "init"} =>
            (((arg_messages \div num_threads) % WINDOW_SIZE # 0) <=> (warned[p] > 0))

(***************************************************************************)
(* C12 : the normalised message count is at least one batch, so every      *)
(* putter thread that has stopped its timer has flushed a measured batch   *)
(* and every sample that the reporting loop reads is positive.             *)
(***************************************************************************)
C12_AtLeastOneBatch ==
    /\ \A p \in Ranks : pc[p] # "normalize" => WinPosts(num_messages[p]) >= 1
    /\ \A t \in Tids : ops[t].ended => ops[t].meas_flushes >= 1
    /\ \A t \in Tids : reads[t] > 0 => FLess(FZero, t_elapsed[Putter][t].value)

(***************************************************************************)
(* C13 : when MPI does not provide MPI_THREAD_MULTIPLE or the job does not *)
(* have exactly two processes, no process gets past the checks of main():  *)
(* nothing is allocated, no window is created, no epoch is opened, no      *)
(* thread is forked and no put is issued; a process is inside run_bench()  *)
(* only when both conditions hold, and it aborts only when one fails.      *)
(***************************************************************************)
InMain == {"init_thread", "comm_size", "aborted"}

C13_FailFast ==
    \A p \in Ranks :
        /\ (provided # "MPI_THREAD_MULTIPLE" \/ comm_size # 2) =>
              /\ pc[p] \in InMain
              /\ t_elapsed[p] = NoCells
              /\ contig_buf[p] = "uninit"
              /\ window[p] = "uninit"
              /\ coll[p] = <<>>
              /\ epoch.locks = 0
              /\ \A t \in Tids :
                    /\ tpc[p][t] = "idle"
                    /\ host_buf[t] = "uninit"
                    /\ ops[t].last.kind = "none"
        /\ pc[p] \notin InMain => (provided = "MPI_THREAD_MULTIPLE" /\ comm_size = 2)
        /\ pc[p] = "aborted" => (provided # "MPI_THREAD_MULTIPLE" \/ comm_size # 2)

\* three processes with full thread support: rank 0 has aborted the job
C13_Witness ==
    /\ comm_size = 3
    /\ provided = "MPI_THREAD_MULTIPLE"
    /\ \A p \in Ranks : pc[p] = "aborted"

(***************************************************************************)
(* C14 : a process whose calloc (line 43) or posix_memalign (line 52) has  *)
(* failed goes no further (it makes no collective call, so it registers no *)
(* window, and forks no thread), and a putter thread whose posix_memalign  *)
(* (line 89) has failed issues no put.                                     *)
(***************************************************************************)
FailedAllocation(p) ==
    /\ Allocated(p)
    /\ \/ "t_elapsed" \in alloc_fail
       \/ p = Target /\ "contig_buf" \in alloc_fail

C14_AllocationFailureIsFatal ==
    /\ \A p \in Ranks :
          FailedAllocation(p) =>
              /\ coll[p] = <<>>
              /\ \A t \in Tids : tpc[p][t] = "idle"
    /\ \A t \in Tids :
          (tpc[Putter][t] \notin {"idle", "init", "alloc_host"} /\ "host_buf" \in alloc_fail) =>
              ops[t].last.kind = "none"

(***************************************************************************)
(* C19 : the displacement that a thread computes at line 78 is the         *)
(* mathematical product tid * message_size, and with message_size added it *)
(* does not exceed contig_buffer_size (line 46).                           *)
(***************************************************************************)
C19_DisplacementNeverWraps ==
    \A p \in Ranks : \A t \in Tids :
        tpc[p][t] \notin {"idle", "init"} =>
            /\ target_disp[p][t] = WideMul(message_size, t)
            /\ WideLeq(WideAdd(target_disp[p][t], message_size),
                       ContigBufferSize(message_size, num_threads))

(***************************************************************************)
(* C18 : on either rank every thread has copied the shared window handle   *)
(* (line 77) while it was live before any thread of that rank calls        *)
(* MPI_Win_free, which overwrites the handle; and every put or flush of a  *)
(* putter thread is made through a copy of the live handle while the       *)
(* putter has not freed its window, no thread being left in the region     *)
(* when it does.                                                           *)
(***************************************************************************)
HandleCopied(p, t) ==
    /\ tpc[p][t] \notin {"idle", "init"}
    /\ my_window[p][t] = "live"

C18_NoHandleRace ==
    /\ \A p \in Ranks : \A t \in Tids :
          /\ tpc[p][t] \notin {"idle", "init"} => my_window[p][t] = "live"
          /\ (Called(p, "MPI_Win_free") \/ window[p] = "MPI_WIN_NULL") => HandleCopied(p, t)
    /\ \A t \in Tids :
          /\ ops[t].last.kind # "none" =>
                /\ ops[t].last.win = "live"
                /\ ops[t].last.shared_win = "live"
          /\ Called(Putter, "MPI_Win_free") => tpc[Putter][t] = "join"

\* both ranks have freed the window of a run in which two threads put
C18_Witness ==
    /\ TwoThreadsPut
    /\ \A p \in Ranks : window[p] = "MPI_WIN_NULL"
    /\ \A t \in Tids : ops[t].last.kind = "flush"

(***************************************************************************)
(* C17 : both ranks make the same collective calls in the same order       *)
(* (MPI_Win_create, MPI_Barrier, MPI_Win_free, MPI_Barrier, MPI_Barrier),  *)
(* each of them once per rank, so that inside the region only one thread   *)
(* of the team makes the call; a thread is past an omp barrier only when   *)
(* every thread of its team has arrived at it, and after the region every  *)
(* thread has arrived at every omp barrier of its rank; and under fair     *)
(* scheduling both ranks reach the end of run_bench().                     *)
(***************************************************************************)
CollectiveOrder ==
    <<"MPI_Win_create", "MPI_Barrier", "MPI_Win_free", "MPI_Barrier", "MPI_Barrier">>

\* the omp barriers in the region of rank p : line 104, or lines 130 and 137
OmpBarriers(p) == IF p = Putter THEN 1 ELSE 2

\* the omp barriers that thread t of rank p has left
OmpBarriersLeft(p, t) ==
    IF tpc[p][t] \in {"idle", "init", "alloc_host", "warmup", "master1", "master1_wait", "omp1"}
    THEN 0
    ELSE IF p = Target /\ tpc[p][t] \in {"master_free", "master_free_wait", "omp2"}
    THEN 1
    ELSE OmpBarriers(p)

AfterRegion == {"unlock_all", "win_free", "win_free_wait", "barrier2", "barrier2_wait",
                "report", "barrier3", "barrier3_wait", "free_buf", "done"}

Finished == \A p \in Ranks : pc[p] = "done"

CollectivesInOrder ==
    \A p \in Ranks :
        /\ Len(coll[p]) <= Len(CollectiveOrder)
        /\ \A i \in 1 .. Len(coll[p]) : coll[p][i] = CollectiveOrder[i]
        /\ pc[p] = "done" => coll[p] = CollectiveOrder
        /\ \A t \in Tids : \A u \in Tids :
              omp_arrived[p][u] >= OmpBarriersLeft(p, t)
        /\ pc[p] \in AfterRegion =>
              \A t \in Tids : omp_arrived[p][t] = OmpBarriers(p)

C17_DeadlockFree == []CollectivesInOrder /\ <>Finished

\* both ranks are through a run with two threads that put
C17_Witness ==
    /\ TwoThreadsPut
    /\ Finished
    /\ \A p \in Ranks : coll[p] = CollectiveOrder

(***************************************************************************)
(* C15 : after thread_i iterations of the reporting loop msg_rate and      *)
(* bandwidth are the sums, added up from 0 in the order of the slots, of   *)
(* the rates and bandwidths of the rows printed so far, one row for each   *)
(* thread below thread_i and each slot read once; when the loop is left    *)
(* that is every thread.  The total is not below any row, and for two      *)
(* equal rows it is twice the row, not the row.                            *)
(***************************************************************************)
RECURSIVE RateSum(_)
RateSum(k) == IF k = 0 THEN FZero ELSE FAdd(RateSum(k - 1), rows[k - 1].rate)

RECURSIVE BandwidthSum(_)
BandwidthSum(k) == IF k = 0 THEN FZero ELSE FAdd(BandwidthSum(k - 1), rows[k - 1].bw)

Twice(x) == [x EXCEPT !.e = @ + 1]

C15_AggregationIsSum ==
    /\ thread_i \in 0 .. num_threads
    /\ pc[Putter] # "report" => thread_i = num_threads
    /\ msg_rate = RateSum(thread_i)
    /\ bandwidth = BandwidthSum(thread_i)
    /\ \A t \in Tids :
          /\ reads[t] = (IF t < thread_i THEN 1 ELSE 0)
          /\ (rows[t] = NoRow) <=> (t >= thread_i)
          /\ t < thread_i =>
                /\ ~FLess(msg_rate, rows[t].rate)
                /\ ~FLess(bandwidth, rows[t].bw)
    /\ (thread_i = 2 /\ rows[0] = rows[1] /\ rows[0].rate.cls = "fin" /\ rows[0].bw.cls = "fin") =>
          /\ msg_rate = Twice(rows[0].rate)
          /\ bandwidth = Twice(rows[0].bw)

\* the totals of two threads with different finite rates have been printed
C15_Witness ==
    /\ pc[Putter] = "barrier3"
    /\ num_threads = 2
    /\ rows[0].rate.cls = "fin" /\ rows[1].rate.cls = "fin"
    /\ FLess(rows[0].rate, rows[1].rate)
    /\ FLess(rows[1].rate, msg_rate)

(***************************************************************************)
(* C16 : the rows are num_messages / sample / 1e6 and                      *)
(* message_size * num_messages / (1024 * 1024) / sample : samples 1.0 and  *)
(* 2.0 with message_size 1024 and 1,000,000 messages give the rates 1.0    *)
(* and 0.5, the bandwidths 976.5625 and 488.28125 and the total rate 1.5;  *)
(* and of two rows the one with the larger sample has the strictly smaller *)
(* rate and bandwidth.                                                     *)
(***************************************************************************)
Elapsed(t) == t_elapsed[Putter][t].value

ScenarioC ==
    (/\ num_threads = 2
     /\ message_size = 1024
     /\ num_messages[Putter] = 1000000
     /\ Elapsed(0) = Dyadic(1, 0)
     /\ Elapsed(1) = Dyadic(1, 1)) =>
        /\ thread_i >= 1 => rows[0] = [rate |-> Dyadic(1, 0), bw |-> Dyadic(15625, -4)]
        /\ thread_i >= 2 =>
              /\ rows[1] = [rate |-> Dyadic(1, -1), bw |-> Dyadic(15625, -5)]
              /\ msg_rate = Dyadic(3, -1)

C16_StrictlyMonotone ==
    /\ ScenarioC
    /\ \A t \in Tids : \A u \in Tids :
          (/\ t < thread_i /\ u < thread_i
           /\ num_messages[Putter] > 0
           /\ FLess(Elapsed(t), Elapsed(u))) =>
              /\ FLess(rows[u].rate, rows[t].rate)
              /\ FLess(rows[u].bw, rows[t].bw)

(***************************************************************************)
(* C16, amended : the same, but of two rows the one with the larger sample *)
(* never has the larger rate or bandwidth, and has the strictly smaller    *)
(* ones when messages were counted and its sample is at least twice the    *)
(* other.                                                                  *)
(***************************************************************************)
\* b >= 2 * a for two samples that are finite and not below 0
TwiceOrMore(a, b) ==
    /\ b.cls = "fin"
    /\ \/ a.cls = "zero"
       \/ a.cls = "fin" /\ (b.e > a.e + 1 \/ (b.e = a.e + 1 /\ PGeq(b.m, a.m)))

C16_Metrics ==
    /\ ScenarioC
    /\ \A t \in Tids : \A u \in Tids :
          (t < thread_i /\ u < thread_i) =>
              /\ FLess(Elapsed(t), Elapsed(u)) =>
                    /\ ~FLess(rows[t].rate, rows[u].rate)
                    /\ ~FLess(rows[t].bw, rows[u].bw)
              /\ (num_messages[Putter] > 0 /\ TwiceOrMore(Elapsed(t), Elapsed(u))) =>
                    /\ FLess(rows[u].rate, rows[t].rate)
                    /\ FLess(rows[u].bw, rows[t].bw)

\* the rows of the scenario have been printed
C16_Witness ==
    /\ num_threads = 2
    /\ message_size = 1024
    /\ num_messages[Putter] = 1000000
    /\ Elapsed(0) = Dyadic(1, 0)
    /\ Elapsed(1) = Dyadic(1, 1)
    /\ thread_i = 2
    /\ rows[1].rate = Dyadic(1, -1)

====
